---- MODULE Spec2Model ----
(***************************************************************************)
(* A model of the prefixed-api-key crate: the key entity                   *)
(* (src/src/prefixed_api_key.rs, and its older form in src/src/lib.rs) and *)
(* the controller that generates, hashes and verifies keys                 *)
(* (src/src/controller.rs).                                                *)
(*                                                                         *)
(* Text is modelled as a sequence of one-character strings, a byte as a    *)
(* number in 0..255.                                                       *)
(***************************************************************************)
EXTENDS Integers, Sequences, FiniteSets

VARIABLES
    cfg,      \* the controller's immutable fields: prefix, short_token_prefix, lengths
    rng,      \* the randomness source: the lengths of the draws made on it, in order
    digest,   \* the controller's digest: the bytes absorbed since the last reset
    pak,      \* the PrefixedApiKey the caller holds
    stored,   \* the (key, hash) pair the caller has persisted, if any
    builder,  \* the ControllerBuilder the caller holds, or Moved once consumed
    options,  \* the GeneratorOptions the caller holds
    ret       \* the last operation: its name, its arguments and what it returned

vars == <<cfg, rng, digest, pak, stored, builder, options, ret>>

(***************************************************************************)
(* Bounds of the model.                                                    *)
(***************************************************************************)
\* longest caller-supplied string handed to from_string
MaxInputLen == 4
\* longest field handed to PrefixedApiKey::new
MaxFieldLen == 1
\* largest short_token_length / long_token_length a controller is built with
MaxTokenLen == 2
\* largest number of fill_bytes calls on one randomness source (a generated
\* key takes two)
MaxDraws == 2
\* largest number of bytes a caller feeds its own digest handle before it
\* hands the handle to a key
MaxAbsorbed == 2

(***************************************************************************)
(* Characters and bytes.                                                   *)
(***************************************************************************)
Digits == <<"0", "1", "2", "3", "4", "5", "6", "7", "8", "9">>

UpperCase == <<"A", "B", "C", "D", "E", "F", "G", "H", "I", "J", "K", "L", "M",
               "N", "O", "P", "Q", "R", "S", "T", "U", "V", "W", "X", "Y", "Z">>

LowerCase == <<"a", "b", "c", "d", "e", "f", "g", "h", "i", "j", "k", "l", "m",
               "n", "o", "p", "q", "r", "s", "t", "u", "v", "w", "x", "y", "z">>

IndexOf(seq, c) == CHOOSE i \in 1..Len(seq) : seq[i] = c

InSeq(seq, c) == \E i \in 1..Len(seq) : seq[i] = c

\* The byte a character is stored as (String::as_bytes on ASCII text).
AsciiCode(c) ==
    IF InSeq(Digits, c) THEN 47 + IndexOf(Digits, c)
    ELSE IF InSeq(UpperCase, c) THEN 64 + IndexOf(UpperCase, c)
    ELSE IF InSeq(LowerCase, c) THEN 96 + IndexOf(LowerCase, c)
    ELSE IF c = "_" THEN 95
    ELSE 45

Range(seq) == {seq[i] : i \in 1..Len(seq)}

\* Every character the model's texts are made of.
Alphabet == Range(Digits) \cup Range(UpperCase) \cup Range(LowerCase) \cup {"_", "-"}

CharCode == [c \in Alphabet |-> AsciiCode(c)]

AsBytes(s) == [i \in 1..Len(s) |-> CharCode[s[i]]]

SeqsUpTo(S, n) == UNION {[1..k -> S] : k \in 0..n}

\* The characters a caller builds fields and input strings from.
Chars == {"a", "_"}

(***************************************************************************)
(* PrefixedApiKey (src/src/prefixed_api_key.rs).                           *)
(***************************************************************************)
PrefixedApiKeyNew(prefix, short_token, long_token) ==
    [prefix |-> prefix, short_token |-> short_token, long_token |-> long_token]

\* A split that drops an empty first segment.
RECURSIVE SplitDroppingLeadingEmpty(_)
SplitDroppingLeadingEmpty(s) ==
    IF ~InSeq(s, "_") THEN <<s>>
    ELSE LET i == CHOOSE j \in 1..Len(s) :
                      s[j] = "_" /\ \A k \in 1..(j - 1) : s[k] # "_"
         IN  IF i = 1 THEN SplitDroppingLeadingEmpty(SubSeq(s, 2, Len(s)))
             ELSE <<SubSeq(s, 1, i - 1)>> \o SplitDroppingLeadingEmpty(SubSeq(s, i + 1, Len(s)))

\* str::split('_'): the segments between the separators, empty ones kept.
RECURSIVE Split(_)
Split(s) ==
    IF ~InSeq(s, "_") THEN <<s>>
    ELSE LET i == CHOOSE j \in 1..Len(s) :
                      s[j] = "_" /\ \A k \in 1..(j - 1) : s[k] # "_"
         IN  <<SubSeq(s, 1, i - 1)>> \o Split(SubSeq(s, i + 1, Len(s)))

\* The key with three empty fields; it also fills the key slot of a failed parse.
NoKey == PrefixedApiKeyNew(<<>>, <<>>, <<>>)

WrongNumberOfParts(n) == [ok |-> FALSE, n |-> n, key |-> NoKey]

Ok(key) == [ok |-> TRUE, n |-> 3, key |-> key]

\* A from_string that accepts any string of two segments or more.
from_string_first_two(pak_string) ==
    LET parts == Split(pak_string)
    IN  IF Len(parts) < 2
        THEN WrongNumberOfParts(Len(parts))
        ELSE Ok(PrefixedApiKeyNew(parts[1], parts[2], parts[Len(parts)]))

\* A from_string that hands the last two segments over in the wrong order.
from_string_swapped(pak_string) ==
    LET parts == Split(pak_string)
    IN  IF Len(parts) # 3
        THEN WrongNumberOfParts(Len(parts))
        ELSE Ok(PrefixedApiKeyNew(parts[1], parts[3], parts[2]))

\* A from_string that reads the prefix twice.
from_string_prefix_twice(pak_string) ==
    LET parts == Split(pak_string)
    IN  IF Len(parts) # 3
        THEN WrongNumberOfParts(Len(parts))
        ELSE Ok(PrefixedApiKeyNew(parts[1], parts[1], parts[3]))

\* PrefixedApiKey::from_string
from_string(pak_string) ==
    LET parts == Split(pak_string)
    IN  IF Len(parts) # 3
        THEN WrongNumberOfParts(Len(parts))
        ELSE Ok(PrefixedApiKeyNew(parts[1], parts[2], parts[3]))

\* impl TryInto<PrefixedApiKey> for &str
try_into(s) == from_string(s)

\* A to_string whose format string lacks the second separator.
to_string_one_separator(key) ==
    key.prefix \o <<"_">> \o key.short_token \o key.long_token

\* A to_string that writes the tokens in the wrong order.
to_string_tokens_reordered(key) ==
    key.prefix \o <<"_">> \o key.long_token \o <<"_">> \o key.short_token

\* impl ToString for PrefixedApiKey: format!("{}_{}_{}", ...)
to_string(key) ==
    key.prefix \o <<"_">> \o key.short_token \o <<"_">> \o key.long_token

\* PrefixedApiKey::as_string of src/src/lib.rs: the same format string.
as_string(key) ==
    key.prefix \o <<"_">> \o key.short_token \o <<"_">> \o key.long_token

\* A Display that writes the long token out.
LibDisplayFmtUnmasked(key) ==
    key.prefix \o <<"_">> \o key.short_token \o <<"_">> \o key.long_token

\* impl fmt::Display for the PrefixedApiKey of src/src/lib.rs:
\* write!(f, "{}_{}_***", self.prefix(), self.short_token())
LibDisplayFmt(key) ==
    key.prefix \o <<"_">> \o key.short_token \o <<"_", "*", "*", "*">>

\* <str as Debug>::fmt: the text in double quotes (none of the model's
\* characters needs an escape).
DebugStr(s) == <<"\"">> \o s \o <<"\"">>

\* impl Debug for PrefixedApiKey: debug_struct with the long token's field
\* given the literal "***".
DebugFmt(key) ==
    <<"PrefixedApiKey { prefix: ">> \o DebugStr(key.prefix)
        \o <<", short_token: ">> \o DebugStr(key.short_token)
        \o <<", long_token: ">> \o DebugStr(<<"*", "*", "*">>) \o <<" }">>

\* #[derive(Debug)] on the older PrefixedApiKey of src/src/lib.rs: every
\* field is printed with its own Debug.
LibDebugFmt(key) ==
    <<"PrefixedApiKey { prefix: ">> \o DebugStr(key.prefix)
        \o <<", short_token: ">> \o DebugStr(key.short_token)
        \o <<", long_token: ">> \o DebugStr(key.long_token) \o <<" }">>

(***************************************************************************)
(* Encodings used by the controller: base58 (bs58::encode, Bitcoin         *)
(* alphabet) and lowercase hexadecimal (hex::encode).                      *)
(***************************************************************************)
Base58Alphabet ==
    <<"1", "2", "3", "4", "5", "6", "7", "8", "9",
      "A", "B", "C", "D", "E", "F", "G", "H", "J", "K", "L", "M", "N", "P", "Q",
      "R", "S", "T", "U", "V", "W", "X", "Y", "Z",
      "a", "b", "c", "d", "e", "f", "g", "h", "i", "j", "k", "m", "n", "o", "p",
      "q", "r", "s", "t", "u", "v", "w", "x", "y", "z">>

\* The number a byte string spells, most significant byte first.
RECURSIVE BigEndian(_)
BigEndian(bytes) ==
    IF bytes = <<>> THEN 0
    ELSE 256 * BigEndian(SubSeq(bytes, 1, Len(bytes) - 1)) + bytes[Len(bytes)]

\* The base-58 digits of a number, most significant first; none for 0.
RECURSIVE Base58Digits(_)
Base58Digits(v) ==
    IF v = 0 THEN <<>>
    ELSE Base58Digits(v \div 58) \o <<Base58Alphabet[(v % 58) + 1]>>

RECURSIVE LeadingZeros(_)
LeadingZeros(bytes) ==
    IF bytes # <<>> /\ bytes[1] = 0
    THEN 1 + LeadingZeros(SubSeq(bytes, 2, Len(bytes)))
    ELSE 0

\* An encoding that spends one character on each byte.
Base58EncodeOneCharPerByte(bytes) ==
    [i \in 1..Len(bytes) |-> Base58Alphabet[(bytes[i] % 58) + 1]]

\* bs58::encode(bytes).into_string(): one "1" per leading zero byte, then
\* the base-58 digits of the whole.
Base58Encode(bytes) ==
    [i \in 1..LeadingZeros(bytes) |-> Base58Alphabet[1]]
        \o Base58Digits(BigEndian(bytes))

HexAlphabet ==
    <<"0", "1", "2", "3", "4", "5", "6", "7", "8", "9", "a", "b", "c", "d", "e", "f">>

UpperHexAlphabet ==
    <<"0", "1", "2", "3", "4", "5", "6", "7", "8", "9", "A", "B", "C", "D", "E", "F">>

\* hex::encode_upper in place of hex::encode.
RECURSIVE HexEncodeUpper(_)
HexEncodeUpper(bytes) ==
    IF bytes = <<>> THEN <<>>
    ELSE <<UpperHexAlphabet[(bytes[1] \div 16) + 1], UpperHexAlphabet[(bytes[1] % 16) + 1]>>
             \o HexEncodeUpper(SubSeq(bytes, 2, Len(bytes)))

\* hex::encode: two lowercase hexadecimal characters per byte.
RECURSIVE HexEncode(_)
HexEncode(bytes) ==
    IF bytes = <<>> THEN <<>>
    ELSE <<HexAlphabet[(bytes[1] \div 16) + 1], HexAlphabet[(bytes[1] % 16) + 1]>>
             \o HexEncode(SubSeq(bytes, 2, Len(bytes)))

(***************************************************************************)
(* The digest D: Digest + FixedOutputReset.  It is a type parameter of the *)
(* controller; the model instantiates it with a 16-bit polynomial          *)
(* checksum.  Its state is the byte string absorbed since it was created   *)
(* or last reset.                                                          *)
(***************************************************************************)
\* Sha256::new() and the like: nothing absorbed.
DigestNew == <<>>

\* Digest::update(digest, data)
DigestUpdate(d, data) == d \o data

RECURSIVE Checksum(_)
Checksum(bytes) ==
    IF bytes = <<>> THEN 7
    ELSE (31 * Checksum(SubSeq(bytes, 1, Len(bytes) - 1)) + bytes[Len(bytes)]) % 65536

\* The fixed-size output of the digest over what it has absorbed.
DigestOutput(d) == <<Checksum(d) \div 256, Checksum(d) % 256>>

\* A finalize that leaves what was absorbed in the digest.
FinalizeWithoutReset(d) == [out |-> DigestOutput(d), digest |-> d]

\* FixedOutputReset::finalize_reset: the output, and the digest as new.
FinalizeReset(d) == [out |-> DigestOutput(d), digest |-> DigestNew]

\* A long_token_hashed that clears the digest it is given before it uses it.
PakLongTokenHashedResetOnEntry(key, d) ==
    LET fin == FinalizeReset(DigestUpdate(DigestNew, AsBytes(key.long_token)))
    IN  [hash |-> HexEncode(fin.out), digest |-> fin.digest]

\* A long_token_hashed that absorbs the short token before the long one.
PakLongTokenHashedWithShortToken(key, d) ==
    LET fin == FinalizeReset(DigestUpdate(d, AsBytes(key.short_token \o key.long_token)))
    IN  [hash |-> HexEncode(fin.out), digest |-> fin.digest]

\* PrefixedApiKey::long_token_hashed(&self, digest: &mut D): the hash
\* returned and the digest left behind.
PakLongTokenHashed(key, d) ==
    LET fin == FinalizeReset(DigestUpdate(d, AsBytes(key.long_token)))
    IN  [hash |-> HexEncode(fin.out), digest |-> fin.digest]

\* lib.rs PrefixedApiKey::long_token_hashed(&self, mut hasher: H): the
\* hasher is taken by value and finalized; only the hash comes back.
LibLongTokenHashed(key, hasher) ==
    HexEncode(FinalizeWithoutReset(DigestUpdate(hasher, AsBytes(key.long_token))).out)

(***************************************************************************)
(* The digest the tests and the examples use: Sha256 of the sha2 crate,    *)
(* as FIPS 180-4 defines it.  A 32-bit word is the pair of its 16-bit      *)
(* halves <<high, low>>.                                                   *)
(***************************************************************************)
Pow2 == [n \in 0..16 |-> 2 ^ n]

RECURSIVE Xor16(_, _)
Xor16(a, b) ==
    IF a = 0 THEN b
    ELSE IF b = 0 THEN a
    ELSE ((a + b) % 2) + 2 * Xor16(a \div 2, b \div 2)

RECURSIVE And16(_, _)
And16(a, b) ==
    IF a = 0 \/ b = 0 THEN 0
    ELSE (a % 2) * (b % 2) + 2 * And16(a \div 2, b \div 2)

XOR(x, y) == <<Xor16(x[1], y[1]), Xor16(x[2], y[2])>>

AND(x, y) == <<And16(x[1], y[1]), And16(x[2], y[2])>>

NOT(x) == <<65535 - x[1], 65535 - x[2]>>

\* Rotation to the right by n < 16 bits.
Rot(x, n) ==
    <<(x[1] \div Pow2[n]) + (x[2] % Pow2[n]) * Pow2[16 - n],
      (x[2] \div Pow2[n]) + (x[1] % Pow2[n]) * Pow2[16 - n]>>

\* Rotation to the right by n < 32 bits.
ROTR(x, n) == IF n >= 16 THEN Rot(<<x[2], x[1]>>, n - 16) ELSE Rot(x, n)

\* Shift to the right by n < 16 bits.
SHR(x, n) ==
    <<x[1] \div Pow2[n], (x[2] \div Pow2[n]) + (x[1] % Pow2[n]) * Pow2[16 - n]>>

RECURSIVE SumHalf(_, _)
SumHalf(ws, k) == IF ws = <<>> THEN 0 ELSE ws[1][k] + SumHalf(Tail(ws), k)

\* The sum of some words modulo 2^32.
AddWords(ws) ==
    LET low == SumHalf(ws, 2)
        high == SumHalf(ws, 1) + (low \div 65536)
    IN  <<high % 65536, low % 65536>>

Ch(x, y, z) == XOR(AND(x, y), AND(NOT(x), z))

Maj(x, y, z) == XOR(XOR(AND(x, y), AND(x, z)), AND(y, z))

BigSigma0(x) == XOR(XOR(ROTR(x, 2), ROTR(x, 13)), ROTR(x, 22))

BigSigma1(x) == XOR(XOR(ROTR(x, 6), ROTR(x, 11)), ROTR(x, 25))

SmallSigma0(x) == XOR(XOR(ROTR(x, 7), ROTR(x, 18)), SHR(x, 3))

SmallSigma1(x) == XOR(XOR(ROTR(x, 17), ROTR(x, 19)), SHR(x, 10))

\* The round constants.
Sha256K ==
    << <<17034, 12184>>, <<28983, 17553>>, <<46528, 64463>>, <<59829, 56229>>,
       <<14678, 49755>>, <<23025, 4593>>, <<37439, 33444>>, <<43804, 24277>>,
       <<55303, 43672>>, <<4739, 23297>>, <<9265, 34238>>, <<21772, 32195>>,
       <<29374, 23924>>, <<32990, 45566>>, <<39900, 1703>>, <<49563, 61812>>,
       <<58523, 27073>>, <<61374, 18310>>, <<4033, 40390>>, <<9228, 41420>>,
       <<11753, 11375>>, <<19060, 33962>>, <<23728, 43484>>, <<30457, 35034>>,
       <<38974, 20818>>, <<43057, 50797>>, <<45059, 10184>>, <<48985, 32711>>,
       <<50912, 3059>>, <<54695, 37191>>, <<1738, 25425>>, <<5161, 10599>>,
       <<10167, 2693>>, <<11803, 8504>>, <<19756, 28156>>, <<21304, 3347>>,
       <<25866, 29524>>, <<30314, 2747>>, <<33218, 51502>>, <<37490, 11397>>,
       <<41663, 59553>>, <<43034, 26187>>, <<49739, 35696>>, <<51052, 20899>>,
       <<53650, 59417>>, <<54937, 1572>>, <<62478, 13701>>, <<4202, 41072>>,
       <<6564, 49430>>, <<7735, 27656>>, <<10056, 30540>>, <<13488, 48309>>,
       <<14620, 3251>>, <<20184, 43594>>, <<23452, 51791>>, <<26670, 28659>>,
       <<29839, 33518>>, <<30885, 25455>>, <<33992, 30740>>, <<36039, 520>>,
       <<37054, 65530>>, <<42064, 27883>>, <<48889, 41975>>, <<50801, 30962>> >>

\* The initial hash value.
Sha256H0 ==
    << <<27145, 58983>>, <<47975, 44677>>, <<15470, 62322>>, <<42319, 62778>>,
       <<20750, 21119>>, <<39685, 26764>>, <<8067, 55723>>, <<23520, 52505>> >>

\* Sha256::new(): nothing absorbed, no block in work.
Sha256New ==
    [phase |-> "idle", buffer |-> <<>>, blocks |-> <<>>, W |-> <<>>, t |-> 0,
     v |-> Sha256H0, H |-> Sha256H0]

\* The message followed by the bit 1, zeros up to 56 modulo 64 bytes and the
\* length of the message in bits as a 64-bit big-endian number.
Sha256Pad(bytes) ==
    LET zeros == (64 - ((Len(bytes) + 9) % 64)) % 64
        bits == 8 * Len(bytes)
    IN  bytes \o <<128>> \o [i \in 1..zeros |-> 0]
            \o <<0, 0, 0, 0, (bits \div 16777216) % 256, (bits \div 65536) % 256,
                 (bits \div 256) % 256, bits % 256>>

\* The sixteen big-endian words of the k-th 64-byte block of a padded message.
Sha256Block(padded, k) ==
    [i \in 1..16 |->
        LET at == 64 * (k - 1) + 4 * (i - 1)
        IN  <<padded[at + 1] * 256 + padded[at + 2],
              padded[at + 3] * 256 + padded[at + 4]>>]

\* The next word of the message schedule, W being the words so far.
Sha256Schedule(W) ==
    LET n == Len(W) + 1
    IN  AddWords(<<SmallSigma1(W[n - 2]), W[n - 7], SmallSigma0(W[n - 15]), W[n - 16]>>)

\* One round of the compression function on the working variables a..h.
Sha256Round(v, k, w) ==
    LET T1 == AddWords(<<v[8], BigSigma1(v[5]), Ch(v[5], v[6], v[7]), k, w>>)
        T2 == AddWords(<<BigSigma0(v[1]), Maj(v[1], v[2], v[3])>>)
    IN  <<AddWords(<<T1, T2>>), v[1], v[2], v[3], AddWords(<<v[4], T1>>),
          v[5], v[6], v[7]>>

\* The hash value as bytes, each word big-endian.
RECURSIVE Sha256Output(_)
Sha256Output(H) ==
    IF H = <<>> THEN <<>>
    ELSE <<H[1][1] \div 256, H[1][1] % 256, H[1][2] \div 256, H[1][2] % 256>>
             \o Sha256Output(Tail(H))

\* crypto::util::fixed_time_eq: false on different lengths, else the
\* differences of all positions are accumulated and compared with zero.
RECURSIVE DiffCount(_, _)
DiffCount(a, b) ==
    IF a = <<>> THEN 0
    ELSE (IF a[1] # b[1] THEN 1 ELSE 0)
             + DiffCount(SubSeq(a, 2, Len(a)), SubSeq(b, 2, Len(b)))

\* A count of the byte pairs looked at by a comparison that stops at the
\* first difference.
RECURSIVE ComparedUntilDifference(_, _)
ComparedUntilDifference(a, b) ==
    IF a = <<>> THEN 0
    ELSE IF a[1] # b[1] THEN 1
    ELSE 1 + ComparedUntilDifference(SubSeq(a, 2, Len(a)), SubSeq(b, 2, Len(b)))

\* The byte pairs the accumulating loop of fixed_time_eq looks at: it has no
\* exit before the end.
RECURSIVE Compared(_, _)
Compared(a, b) ==
    IF a = <<>> THEN 0
    ELSE 1 + Compared(SubSeq(a, 2, Len(a)), SubSeq(b, 2, Len(b)))

\* The work of fixed_time_eq: nothing is compared on different lengths.
fixed_time_eq_work(lhs, rhs) ==
    IF Len(lhs) # Len(rhs) THEN 0 ELSE Compared(lhs, rhs)

\* A comparison over the shorter operand's length only.
fixed_time_eq_prefix_only(lhs, rhs) ==
    LET n == IF Len(lhs) < Len(rhs) THEN Len(lhs) ELSE Len(rhs)
    IN  DiffCount(SubSeq(lhs, 1, n), SubSeq(rhs, 1, n)) = 0

\* crypto::util::fixed_time_eq
fixed_time_eq(lhs, rhs) ==
    IF Len(lhs) # Len(rhs) THEN FALSE
    ELSE DiffCount(lhs, rhs) = 0

(***************************************************************************)
(* PrefixedApiKeyController (src/src/controller.rs).                       *)
(***************************************************************************)
None == [some |-> FALSE, val |-> <<>>]

Some(v) == [some |-> TRUE, val |-> v]

\* PrefixedApiKeyController::new: the fields as given, nothing validated.
ControllerNew(prefix, short_token_prefix, short_token_length, long_token_length) ==
    [prefix |-> prefix,
     short_token_prefix |-> short_token_prefix,
     short_token_length |-> short_token_length,
     long_token_length |-> long_token_length]

\* The byte values the randomness source is seen to produce.
RandBytes == {0, 58}

\* get_random_bytes(length): any buffer of that length the source may fill.
RandomBuffers(length) == [1..length -> RandBytes]

\* What fill_bytes did with the buffer: filled it, or failed and left the
\* zeroed buffer of vec![0u8; length] as it was.
Filled(bytes) == [ok |-> TRUE, bytes |-> bytes]

SourceFailed(length) == [ok |-> FALSE, bytes |-> [i \in 1..length |-> 0]]

\* A get_random_bytes that goes on with the buffer whatever the source did
\* (try_fill_bytes with the error dropped).
get_random_bytes_error_dropped(outcome) == [panic |-> FALSE, bytes |-> outcome.bytes]

\* get_random_bytes: fill_bytes panics when the source fails, and the
\* buffer is returned only when it was filled.
get_random_bytes(outcome) ==
    IF outcome.ok THEN [panic |-> FALSE, bytes |-> outcome.bytes]
    ELSE [panic |-> TRUE, bytes |-> <<>>]

\* get_random_token, given the bytes get_random_bytes returned.
get_random_token(bytes) == Base58Encode(bytes)

\* (..).chars().take(n).collect()
Take(s, n) == SubSeq(s, 1, IF Len(s) < n THEN Len(s) ELSE n)

\* A generate_key that truncates the random part and puts the prefix before it.
generate_key_prefix_added(c, short_bytes, long_bytes) ==
    LET random == get_random_token(short_bytes)
        short_token ==
            IF c.short_token_prefix.some
            THEN c.short_token_prefix.val \o Take(random, c.short_token_length)
            ELSE random
    IN  PrefixedApiKeyNew(c.prefix, short_token, get_random_token(long_bytes))

\* A generate_key that cuts the long token to long_token_length characters.
generate_key_long_truncated(c, short_bytes, long_bytes) ==
    LET random == get_random_token(short_bytes)
        short_token ==
            IF c.short_token_prefix.some
            THEN Take(c.short_token_prefix.val \o random, c.short_token_length)
            ELSE random
    IN  PrefixedApiKeyNew(c.prefix, short_token,
                          Take(get_random_token(long_bytes), c.long_token_length))

\* Draws that leave out the first one when the short-token prefix alone
\* fills the short token.
generate_key_draws_skipping_unused(c) ==
    IF c.short_token_prefix.some
           /\ Len(c.short_token_prefix.val) >= c.short_token_length
    THEN <<c.long_token_length>>
    ELSE <<c.short_token_length, c.long_token_length>>

\* The lengths generate_key asks of the randomness source, in the order of
\* its two get_random_token calls.
generate_key_draws(c) ==
    <<c.short_token_length, c.long_token_length>>

\* A generate_key that puts the random text before the prefix.
generate_key_random_first(c, short_bytes, long_bytes) ==
    LET random == get_random_token(short_bytes)
        short_token ==
            IF c.short_token_prefix.some
            THEN Take(random \o c.short_token_prefix.val, c.short_token_length)
            ELSE random
    IN  PrefixedApiKeyNew(c.prefix, short_token, get_random_token(long_bytes))

\* A generate_key that joins the short-token prefix to the random text with
\* a separator.
generate_key_separator_in_short(c, short_bytes, long_bytes) ==
    LET random == get_random_token(short_bytes)
        short_token ==
            IF c.short_token_prefix.some
            THEN Take(c.short_token_prefix.val \o <<"_">> \o random, c.short_token_length)
            ELSE random
    IN  PrefixedApiKeyNew(c.prefix, short_token, get_random_token(long_bytes))

\* generate_key, given the bytes of its two draws.
generate_key(c, short_bytes, long_bytes) ==
    LET random == get_random_token(short_bytes)
        short_token ==
            IF c.short_token_prefix.some
            THEN Take(c.short_token_prefix.val \o random, c.short_token_length)
            ELSE random
    IN  PrefixedApiKeyNew(c.prefix, short_token, get_random_token(long_bytes))

\* A generate_key_and_hash that hashes the short token.
generate_key_and_hash_of_short_token(c, short_bytes, long_bytes, d) ==
    LET key == generate_key(c, short_bytes, long_bytes)
        fin == FinalizeReset(DigestUpdate(d, AsBytes(key.short_token)))
    IN  [key |-> key, hash |-> HexEncode(fin.out), digest |-> fin.digest]

\* generate_key_and_hash, given the bytes of the two draws and the
\* controller's digest: the pair returned and the digest left behind.
generate_key_and_hash(c, short_bytes, long_bytes, d) ==
    LET key == generate_key(c, short_bytes, long_bytes)
        h == PakLongTokenHashed(key, d)
    IN  [key |-> key, hash |-> h.hash, digest |-> h.digest]

\* A check_hash that compares the digest's raw output, not its hex text.
check_hash_raw_output(key, hash, d) ==
    LET fin == FinalizeReset(DigestUpdate(d, AsBytes(key.long_token)))
    IN  [res |-> fixed_time_eq(fin.out, AsBytes(hash)), digest |-> fin.digest,
         work |-> fixed_time_eq_work(fin.out, AsBytes(hash))]

\* check_hash, given the controller's digest: the verdict and the digest
\* left behind.
check_hash(key, hash, d) ==
    LET h == PakLongTokenHashed(key, d)
    IN  [res |-> fixed_time_eq(AsBytes(h.hash), AsBytes(hash)), digest |-> h.digest,
         work |-> fixed_time_eq_work(AsBytes(h.hash), AsBytes(hash))]

(***************************************************************************)
(* The state machine.  Every action is one call of the public interface by *)
(* the code that owns the controller and the key.                          *)
(***************************************************************************)
\* The constructor takes any prefix, one holding the separator too.
Prefixes == {<<"p">>, <<"p", "_">>}

\* No short-token prefix, one shorter than some lengths, one at least as
\* long as every length, and one holding the separator.
ShortTokenPrefixes ==
    {None, Some(Take(LowerCase, 1)), Some(Take(LowerCase, MaxTokenLen + 1)),
     Some(<<"_">>)}

Configs ==
    {ControllerNew(p, sp, sl, ll) :
        p \in Prefixes, sp \in ShortTokenPrefixes,
        sl \in 0..MaxTokenLen, ll \in 0..MaxTokenLen}

NothingStored == [set |-> FALSE, key |-> NoKey, hash |-> <<>>, by |-> "none"]

\* Strings a caller of the controller parses keys from.
ControllerInputs == {<<"p", "_", "a", "_", "b">>, <<"p", "_", "a">>}

\* A controller built by PrefixedApiKeyController::new around a newly
\* constructed digest (Sha256::new() at every construction in the
\* repository) and an unused randomness source.
(***************************************************************************)
(* ControllerBuilder: every field an Option, None until its setter runs.   *)
(***************************************************************************)
\* ControllerBuilder::new
ControllerBuilderNew ==
    [prefix |-> None, rng |-> None, digest |-> None, short_token_prefix |-> None,
     short_token_length |-> None, long_token_length |-> None]

\* A builder value that finalize(self) has consumed.
Moved == [moved |-> TRUE]

builder_prefix(b, value) == [b EXCEPT !.prefix = Some(value)]

builder_rng(b, value) == [b EXCEPT !.rng = Some(value)]

builder_digest(b, value) == [b EXCEPT !.digest = Some(value)]

\* The argument is itself an Option and is stored as given.
builder_short_token_prefix(b, value) == [b EXCEPT !.short_token_prefix = value]

builder_short_token_length(b, value) == [b EXCEPT !.short_token_length = Some(value)]

\* A long_token_length that writes the short-token length.
builder_long_token_length_writes_short(b, value) ==
    [b EXCEPT !.short_token_length = Some(value)]

builder_long_token_length(b, value) ==
    [b EXCEPT !.long_token_length = Some(value)]

\* A default_lengths with the two numbers exchanged.
default_lengths_swapped(b) ==
    builder_long_token_length(builder_short_token_length(b, 24), 8)

\* self.short_token_length(8).long_token_length(24)
default_lengths(b) ==
    builder_long_token_length(builder_short_token_length(b, 8), 24)

BuilderErr(e) == [ok |-> FALSE, err |-> e]

\* Ok(PrefixedApiKeyController::new(prefix, rng, digest, short_token_prefix,
\* short_token_length, long_token_length))
Built(prefix, r, d, short_token_prefix, short_token_length, long_token_length) ==
    [ok |-> TRUE,
     controller |-> ControllerNew(prefix, short_token_prefix,
                                  short_token_length, long_token_length),
     rng |-> r, digest |-> d]

\* A finalize that looks at the randomness source before the prefix.
finalize_rng_first(b) ==
    IF ~b.rng.some THEN BuilderErr("MissingRng")
    ELSE IF ~b.prefix.some THEN BuilderErr("MissingPrefix")
    ELSE IF ~b.digest.some THEN BuilderErr("MissingDigest")
    ELSE IF ~b.short_token_length.some THEN BuilderErr("MissingShortTokenLength")
    ELSE IF ~b.long_token_length.some THEN BuilderErr("MissingLongTokenLength")
    ELSE Built(b.prefix.val, b.rng.val, b.digest.val, b.short_token_prefix,
               b.short_token_length.val, b.long_token_length.val)

\* A finalize that falls back to the short-token length when the long-token
\* length is unset.
finalize_long_length_optional(b) ==
    IF ~b.prefix.some THEN BuilderErr("MissingPrefix")
    ELSE IF ~b.rng.some THEN BuilderErr("MissingRng")
    ELSE IF ~b.digest.some THEN BuilderErr("MissingDigest")
    ELSE IF ~b.short_token_length.some THEN BuilderErr("MissingShortTokenLength")
    ELSE Built(b.prefix.val, b.rng.val, b.digest.val, b.short_token_prefix,
               b.short_token_length.val,
               IF b.long_token_length.some THEN b.long_token_length.val
               ELSE b.short_token_length.val)

\* A finalize that takes a length of 0 for a missing one.
finalize_rejecting_zero_lengths(b) ==
    IF ~b.prefix.some THEN BuilderErr("MissingPrefix")
    ELSE IF ~b.rng.some THEN BuilderErr("MissingRng")
    ELSE IF ~b.digest.some THEN BuilderErr("MissingDigest")
    ELSE IF ~b.short_token_length.some \/ b.short_token_length.val = 0
    THEN BuilderErr("MissingShortTokenLength")
    ELSE IF ~b.long_token_length.some \/ b.long_token_length.val = 0
    THEN BuilderErr("MissingLongTokenLength")
    ELSE Built(b.prefix.val, b.rng.val, b.digest.val, b.short_token_prefix,
               b.short_token_length.val, b.long_token_length.val)

\* ControllerBuilder::finalize of src/src/controller_builder.rs
finalize(b) ==
    IF ~b.prefix.some THEN BuilderErr("MissingPrefix")
    ELSE IF ~b.rng.some THEN BuilderErr("MissingRng")
    ELSE IF ~b.digest.some THEN BuilderErr("MissingDigest")
    ELSE IF ~b.short_token_length.some THEN BuilderErr("MissingShortTokenLength")
    ELSE IF ~b.long_token_length.some THEN BuilderErr("MissingLongTokenLength")
    ELSE Built(b.prefix.val, b.rng.val, b.digest.val, b.short_token_prefix,
               b.short_token_length.val, b.long_token_length.val)

\* ControllerBuilder::finalize of src/src/controller.rs: the same checks,
\* the error a message.
controller_finalize(b) ==
    IF ~b.prefix.some THEN BuilderErr("Expected prefix to be set, but wasn't")
    ELSE IF ~b.rng.some THEN BuilderErr("Expected rng to be set, but wasn't")
    ELSE IF ~b.digest.some THEN BuilderErr("Expected digest to be set, but wasn't")
    ELSE IF ~b.short_token_length.some
    THEN BuilderErr("Expected short_token_length to be set, but wasn't")
    ELSE IF ~b.long_token_length.some
    THEN BuilderErr("Expected long_token_length to be set, but wasn't")
    ELSE Built(b.prefix.val, b.rng.val, b.digest.val, b.short_token_prefix,
               b.short_token_length.val, b.long_token_length.val)

(***************************************************************************)
(* GeneratorOptions of src/src/lib.rs.                                     *)
(***************************************************************************)
\* impl Default for GeneratorOptions
GeneratorOptionsDefault ==
    [short_token_prefix |-> None, short_token_length |-> 8, long_token_length |-> 24]

options_short_token_prefix(o, value) == [o EXCEPT !.short_token_prefix = value]

options_short_token_length(o, value) == [o EXCEPT !.short_token_length = value]

\* self.short_token_length = value
options_long_token_length(o, value) == [o EXCEPT !.short_token_length = value]

Init ==
    /\ cfg \in Configs
    /\ rng = <<>>
    /\ digest = DigestNew
    /\ pak = NoKey
    /\ stored = NothingStored
    /\ builder = ControllerBuilderNew
    /\ options = GeneratorOptionsDefault
    /\ ret = [op |-> "init"]

InitKey ==
    /\ cfg = ControllerNew(<<"p">>, None, 0, 0)
    /\ rng = <<>>
    /\ digest = DigestNew
    /\ pak = NoKey
    /\ stored = NothingStored
    /\ builder = ControllerBuilderNew
    /\ options = GeneratorOptionsDefault
    /\ ret = [op |-> "init"]

\* PrefixedApiKey::new
New(prefix, short_token, long_token) ==
    /\ pak' = PrefixedApiKeyNew(prefix, short_token, long_token)
    /\ ret' = [op |-> "new", key |-> pak']
    /\ UNCHANGED <<cfg, rng, digest, stored>>

\* key.to_string().  `gen` tells whether the key is the one a generate call
\* has just returned, `parsed` whether it is the one a parse has just
\* returned for the string `source`, and `source_gen` whether that string
\* was the string form of a generated key.
ToString ==
    LET parsed == ret.op \in {"from_string", "try_into"} /\ ret.res.ok
    IN  /\ ret' = [op |-> "to_string", key |-> pak, str |-> to_string(pak),
                   gen |-> ret.op \in {"generate_key", "generate_key_and_hash"},
                   parsed |-> parsed,
                   source |-> IF parsed THEN ret.str ELSE <<>>,
                   source_gen |-> parsed /\ ret.serialized /\ ret.gen]
        /\ UNCHANGED <<cfg, rng, digest, pak, stored>>

\* key.as_string() of src/src/lib.rs
AsString ==
    /\ ret' = [op |-> "as_string", key |-> pak, str |-> as_string(pak)]
    /\ UNCHANGED <<cfg, rng, digest, pak, stored>>

\* PrefixedApiKey::from_string(s); the caller keeps the key it gets.
\* `serialized` tells whether s is the string to_string just returned for
\* the key `of`, and `gen` whether that key came from a generate call.
FromString(s, serialized, of, gen) ==
    LET r == from_string(s)
    IN  /\ ret' = [op |-> "from_string", str |-> s, res |-> r,
                   serialized |-> serialized, of |-> of, gen |-> gen]
        /\ pak' = IF r.ok THEN r.key ELSE pak
        /\ UNCHANGED <<cfg, rng, digest, stored>>

\* let k: Result<PrefixedApiKey, _> = s.try_into()
TryInto(s) ==
    LET r == try_into(s)
    IN  /\ ret' = [op |-> "try_into", str |-> s, res |-> r,
                   serialized |-> FALSE, of |-> NoKey, gen |-> FALSE]
        /\ pak' = IF r.ok THEN r.key ELSE pak
        /\ UNCHANGED <<cfg, rng, digest, stored>>

\* format!("{:?}", key) with the Debug of src/src/prefixed_api_key.rs
Debug ==
    /\ ret' = [op |-> "debug", key |-> pak, str |-> DebugFmt(pak)]
    /\ UNCHANGED <<cfg, rng, digest, pak, stored>>

\* format!("{:?}", key) with the derived Debug of src/src/lib.rs
LibDebug ==
    /\ ret' = [op |-> "lib_debug", key |-> pak, str |-> LibDebugFmt(pak)]
    /\ UNCHANGED <<cfg, rng, digest, pak, stored>>

\* format!("{}", key) with the Display of src/src/lib.rs
LibDisplay ==
    /\ ret' = [op |-> "lib_display", key |-> pak, str |-> LibDisplayFmt(pak)]
    /\ UNCHANGED <<cfg, rng, digest, pak, stored>>

\* controller.generate_key(): two draws, the short token's first.
GenerateKey ==
    /\ Len(rng) + 2 <= MaxDraws
    /\ \E short_bytes \in RandomBuffers(cfg.short_token_length),
          long_bytes \in RandomBuffers(cfg.long_token_length) :
            /\ pak' = generate_key(cfg, short_bytes, long_bytes)
            /\ ret' = [op |-> "generate_key", key |-> pak',
                       drawn |-> <<short_bytes, long_bytes>>, failed |-> 0]
    /\ rng' = rng \o generate_key_draws(cfg)
    /\ UNCHANGED <<cfg, digest, stored>>

\* The panic of fill_bytes in the k-th draw of generate_key: the call is
\* left without a return value, after k calls on the source.
Panic(k) ==
    /\ ret' = [op |-> "panic", in |-> "generate_key", failed |-> k,
               pak |-> pak, rng |-> rng]
    /\ rng' = rng \o SubSeq(generate_key_draws(cfg), 1, k)
    /\ UNCHANGED <<cfg, digest, pak, stored>>

\* controller.generate_key() on a source that fails in the k-th draw.
GenerateKeyRngFails(k) ==
    /\ Len(rng) + 2 <= MaxDraws
    /\ \E short_bytes \in RandomBuffers(cfg.short_token_length) :
          LET first == get_random_bytes(IF k = 1
                                        THEN SourceFailed(cfg.short_token_length)
                                        ELSE Filled(short_bytes))
              second == get_random_bytes(SourceFailed(cfg.long_token_length))
          IN  IF first.panic THEN Panic(1)
              ELSE IF second.panic THEN Panic(2)
              ELSE /\ pak' = generate_key(cfg, first.bytes, second.bytes)
                   /\ ret' = [op |-> "generate_key", key |-> pak',
                              drawn |-> <<first.bytes, second.bytes>>,
                              failed |-> k]
                   /\ rng' = rng \o generate_key_draws(cfg)
                   /\ UNCHANGED <<cfg, digest, stored>>

\* controller.generate_key_and_hash(); the caller persists the pair.
GenerateKeyAndHash ==
    /\ Len(rng) + 2 <= MaxDraws
    /\ \E short_bytes \in RandomBuffers(cfg.short_token_length),
          long_bytes \in RandomBuffers(cfg.long_token_length) :
            LET r == generate_key_and_hash(cfg, short_bytes, long_bytes, digest)
            IN  /\ pak' = r.key
                /\ digest' = r.digest
                /\ stored' = [set |-> TRUE, key |-> r.key, hash |-> r.hash,
                              by |-> "generate_key_and_hash"]
                /\ ret' = [op |-> "generate_key_and_hash", key |-> r.key,
                           hash |-> r.hash,
                           drawn |-> <<short_bytes, long_bytes>>, failed |-> 0]
    /\ rng' = rng \o generate_key_draws(cfg)
    /\ UNCHANGED cfg

\* controller.long_token_hashed(&pak); the caller may persist the pair.
LongTokenHashed(keep) ==
    LET h == PakLongTokenHashed(pak, digest)
    IN  /\ digest' = h.digest
        /\ ret' = [op |-> "long_token_hashed", key |-> pak, hash |-> h.hash,
                   kept |-> keep]
        /\ stored' = IF keep
                     THEN [set |-> TRUE, key |-> pak, hash |-> h.hash,
                           by |-> "long_token_hashed"]
                     ELSE stored
        /\ UNCHANGED <<cfg, rng, pak>>

\* The lowercase hexadecimal letters of a text turned to upper case.
UpperOf ==
    [c \in Alphabet |->
        IF InSeq(HexAlphabet, c) THEN UpperHexAlphabet[IndexOf(HexAlphabet, c)] ELSE c]

UpperHex(s) == [i \in 1..Len(s) |-> UpperOf[s[i]]]

\* Candidate hashes a caller may present for a key: the persisted one, the
\* one a new digest gives, and texts that are not it, one of them wrong in
\* its last character only.
Candidates(key) ==
    LET h == HexEncode(DigestOutput(AsBytes(key.long_token)))
    IN  {h, UpperHex(h), <<>>, Take(h, Len(h) - 1), <<"n", "o", "t", "-">>,
         [h EXCEPT ![Len(h)] = "-"], stored.hash}

\* controller.check_hash(&key, hash) for the key at hand or the persisted one.
\* A check_hash that takes a token's worth of bytes from the randomness source.
CheckHashDrawing(key, hash) ==
    LET c == check_hash(key, hash, digest)
    IN  /\ digest' = c.digest
        /\ rng' = rng \o <<cfg.long_token_length>>
        /\ ret' = [op |-> "check_hash", key |-> key, cand |-> hash,
                   res |-> c.res, work |-> c.work]
        /\ UNCHANGED <<cfg, pak, stored>>

CheckHash(key, hash) ==
    LET c == check_hash(key, hash, digest)
    IN  /\ digest' = c.digest
        /\ ret' = [op |-> "check_hash", key |-> key, cand |-> hash,
                   res |-> c.res, work |-> c.work]
        /\ UNCHANGED <<cfg, rng, pak, stored>>

\* A panic ends the program: nothing runs after it.
Next ==
    /\ ret.op # "panic"
    /\ \/ GenerateKey
       \/ \E k \in 1..2 : GenerateKeyRngFails(k)
       \/ GenerateKeyAndHash
       \/ \E keep \in BOOLEAN : LongTokenHashed(keep)
       \/ \E key \in {pak, stored.key} : \E hash \in Candidates(key) : CheckHash(key, hash)
       \/ \E s \in ControllerInputs : FromString(s, FALSE, NoKey, FALSE)
       \/ ToString
       \/ ret.op = "to_string" /\ FromString(ret.str, TRUE, ret.key, ret.gen)
    /\ UNCHANGED <<builder, options>>

Spec == Init /\ [][Next]_vars

Fields == SeqsUpTo(Chars, MaxFieldLen)

NextKey ==
    /\ \/ \E p \in Fields, s \in Fields, l \in Fields : New(p, s, l)
       \/ ToString
       \/ \E s \in SeqsUpTo(Chars, MaxInputLen) : FromString(s, FALSE, NoKey, FALSE)
       \/ ret.op = "to_string" /\ FromString(ret.str, TRUE, ret.key, ret.gen)
       \/ \E s \in SeqsUpTo(Chars, MaxInputLen) : TryInto(s)
       \/ Debug
       \/ LibDebug
       \/ AsString
       \/ LibDisplay
    /\ UNCHANGED <<builder, options>>

SpecKey == InitKey /\ [][NextKey]_vars

(***************************************************************************)
(* The builder as a state machine: a caller starts a builder, calls        *)
(* setters in any order and any number of times, and finalizes it with     *)
(* either variant of finalize.  A setter's record keeps the builder it was *)
(* called on and the one it returned.                                      *)
(***************************************************************************)
Rngs == {"OsRng", "ThreadRng"}

Digests == {DigestNew}

BuilderShortTokenPrefixes == {None, Some(Take(LowerCase, 1))}

Lengths == 0..MaxTokenLen

Live == builder # Moved

\* ControllerBuilder::new() / PrefixedApiKeyController::configure()
Configure ==
    /\ builder' = ControllerBuilderNew
    /\ ret' = [op |-> "configure"]
    /\ UNCHANGED <<cfg, rng, digest, pak, stored, options>>

\* builder.prefix(value)
BuilderPrefix(value) ==
    /\ Live
    /\ builder' = builder_prefix(builder, value)
    /\ ret' = [op |-> "prefix", value |-> value, before |-> builder,
               after |-> builder']
    /\ UNCHANGED <<cfg, rng, digest, pak, stored, options>>

\* builder.rng(value)
BuilderRng(value) ==
    /\ Live
    /\ builder' = builder_rng(builder, value)
    /\ ret' = [op |-> "rng", value |-> value, before |-> builder,
               after |-> builder']
    /\ UNCHANGED <<cfg, rng, digest, pak, stored, options>>

\* builder.digest(value)
BuilderDigest(value) ==
    /\ Live
    /\ builder' = builder_digest(builder, value)
    /\ ret' = [op |-> "digest", value |-> value, before |-> builder,
               after |-> builder']
    /\ UNCHANGED <<cfg, rng, digest, pak, stored, options>>

\* builder.short_token_prefix(value)
BuilderShortTokenPrefix(value) ==
    /\ Live
    /\ builder' = builder_short_token_prefix(builder, value)
    /\ ret' = [op |-> "short_token_prefix", value |-> value, before |-> builder,
               after |-> builder']
    /\ UNCHANGED <<cfg, rng, digest, pak, stored, options>>

\* builder.short_token_length(value)
BuilderShortTokenLength(value) ==
    /\ Live
    /\ builder' = builder_short_token_length(builder, value)
    /\ ret' = [op |-> "short_token_length", value |-> value, before |-> builder,
               after |-> builder']
    /\ UNCHANGED <<cfg, rng, digest, pak, stored, options>>

\* builder.long_token_length(value)
BuilderLongTokenLength(value) ==
    /\ Live
    /\ builder' = builder_long_token_length(builder, value)
    /\ ret' = [op |-> "long_token_length", value |-> value, before |-> builder,
               after |-> builder']
    /\ UNCHANGED <<cfg, rng, digest, pak, stored, options>>

\* builder.default_lengths()
DefaultLengths ==
    /\ Live
    /\ builder' = default_lengths(builder)
    /\ ret' = [op |-> "default_lengths", value |-> <<>>, before |-> builder,
               after |-> builder']
    /\ UNCHANGED <<cfg, rng, digest, pak, stored, options>>

\* builder.finalize() consumes the builder.
Finalize ==
    /\ Live
    /\ builder' = Moved
    /\ ret' = [op |-> "finalize", before |-> builder, res |-> finalize(builder)]
    /\ UNCHANGED <<cfg, rng, digest, pak, stored, options>>

ControllerFinalize ==
    /\ Live
    /\ builder' = Moved
    /\ ret' = [op |-> "controller_finalize", before |-> builder,
               res |-> controller_finalize(builder)]
    /\ UNCHANGED <<cfg, rng, digest, pak, stored, options>>

\* GeneratorOptions::default()
OptionsDefault ==
    /\ options' = GeneratorOptionsDefault
    /\ ret' = [op |-> "options_default", value |-> <<>>, before |-> options,
               after |-> options']
    /\ UNCHANGED <<cfg, rng, digest, pak, stored, builder>>

NextBuilder ==
    \/ Configure
    \/ \E value \in Prefixes : BuilderPrefix(value)
    \/ \E value \in Rngs : BuilderRng(value)
    \/ \E value \in Digests : BuilderDigest(value)
    \/ \E value \in BuilderShortTokenPrefixes : BuilderShortTokenPrefix(value)
    \/ \E value \in Lengths : BuilderShortTokenLength(value)
    \/ \E value \in Lengths : BuilderLongTokenLength(value)
    \/ DefaultLengths
    \/ Finalize
    \/ ControllerFinalize
    \/ OptionsDefault

SpecBuilder == InitKey /\ [][NextBuilder]_vars

(***************************************************************************)
(* GeneratorOptions as a state machine: the default value and its setters. *)
(***************************************************************************)
\* options.short_token_prefix(value)
OptionsShortTokenPrefix(value) ==
    /\ options' = options_short_token_prefix(options, value)
    /\ ret' = [op |-> "options_short_token_prefix", value |-> value, before |-> options,
               after |-> options']
    /\ UNCHANGED <<cfg, rng, digest, pak, stored, builder>>

\* options.short_token_length(value)
OptionsShortTokenLength(value) ==
    /\ options' = options_short_token_length(options, value)
    /\ ret' = [op |-> "options_short_token_length", value |-> value, before |-> options,
               after |-> options']
    /\ UNCHANGED <<cfg, rng, digest, pak, stored, builder>>

\* options.long_token_length(value)
OptionsLongTokenLength(value) ==
    /\ options' = options_long_token_length(options, value)
    /\ ret' = [op |-> "options_long_token_length", value |-> value, before |-> options,
               after |-> options']
    /\ UNCHANGED <<cfg, rng, digest, pak, stored, builder>>

NextOptions ==
    \/ OptionsDefault
    \/ \E value \in ShortTokenPrefixes : OptionsShortTokenPrefix(value)
    \/ \E value \in Lengths : OptionsShortTokenLength(value)
    \/ \E value \in Lengths : OptionsLongTokenLength(value)

SpecOptions == InitKey /\ [][NextOptions]_vars

(***************************************************************************)
(* Verification as the check command does it: a controller that is given  *)
(* an empty prefix and the lengths 0, or any other configuration, hashes   *)
(* and checks keys that were parsed or constructed elsewhere.              *)
(***************************************************************************)
CheckConfigs ==
    {ControllerNew(<<>>, None, 0, 0),
     ControllerNew(<<"p">>, Some(Take(LowerCase, 1)), 1, MaxTokenLen)}

InitCheck ==
    /\ cfg \in CheckConfigs
    /\ rng = <<>>
    /\ digest = DigestNew
    /\ pak = NoKey
    /\ stored = NothingStored
    /\ builder = ControllerBuilderNew
    /\ options = GeneratorOptionsDefault
    /\ ret = [op |-> "init"]

NextCheck ==
    /\ \/ \E p \in Fields, s \in Fields, l \in Fields : New(p, s, l)
       \/ \E s \in ControllerInputs : TryInto(s)
       \/ LongTokenHashed(FALSE)
       \/ \E hash \in Candidates(pak) : CheckHash(pak, hash)
    /\ UNCHANGED <<builder, options>>

SpecCheck == InitCheck /\ [][NextCheck]_vars

(***************************************************************************)
(* A key hashed with a digest handle of the caller's own: long_token_hashed*)
(* is a public method of the key, and the handle it is given may have      *)
(* absorbed bytes already.  Here digest is the caller's handle.            *)
(***************************************************************************)
AbsorbedBytes == {0, AsciiCode("a")}

InitDigest ==
    /\ cfg = ControllerNew(<<>>, None, 0, 0)
    /\ rng = <<>>
    /\ digest = DigestNew
    /\ pak \in {PrefixedApiKeyNew(p, s, l) : p \in Fields, s \in Fields, l \in Fields}
    /\ stored = NothingStored
    /\ builder = ControllerBuilderNew
    /\ options = GeneratorOptionsDefault
    /\ ret = [op |-> "init"]

\* Digest::update(&mut digest, data) by the caller
CallerUpdate(b) ==
    /\ Len(digest) < MaxAbsorbed
    /\ digest' = DigestUpdate(digest, <<b>>)
    /\ ret' = [op |-> "update", data |-> <<b>>]
    /\ UNCHANGED <<cfg, rng, pak, stored>>

\* pak.long_token_hashed(&mut digest)
PakLongTokenHashedCall ==
    LET h == PakLongTokenHashed(pak, digest)
    IN  /\ digest' = h.digest
        /\ ret' = [op |-> "pak_long_token_hashed", key |-> pak,
                   absorbed |-> digest, hash |-> h.hash]
        /\ UNCHANGED <<cfg, rng, pak, stored>>

\* lib.rs: pak.long_token_hashed(hasher); the handle is moved into the call,
\* and the caller goes on with a new one.
LibLongTokenHashedCall ==
    /\ ret' = [op |-> "lib_long_token_hashed", key |-> pak,
               absorbed |-> digest, hash |-> LibLongTokenHashed(pak, digest)]
    /\ digest' = DigestNew
    /\ UNCHANGED <<cfg, rng, pak, stored>>

NextDigest ==
    /\ \/ \E b \in AbsorbedBytes : CallerUpdate(b)
       \/ PakLongTokenHashedCall
       \/ LibLongTokenHashedCall
    /\ UNCHANGED <<builder, options>>

SpecDigest == InitDigest /\ [][NextDigest]_vars

(***************************************************************************)
(* long_token_hashed with a Sha256 digest, as the tests call it: the key   *)
(* is parsed from a string, its long token is absorbed, and finalize_reset *)
(* pads the message, runs the compression function block by block and      *)
(* leaves the digest as new.  One step per schedule word and per round.    *)
(***************************************************************************)
\* The key string of the tests check_long_token and
\* check_long_token_via_generator.
TestPakString ==
    <<"m", "y", "c", "o", "m", "p", "a", "n", "y", "_", "C", "E",
      "U", "s", "S", "4", "p", "s", "C", "m", "c", "_", "B", "d",
      "d", "p", "c", "w", "W", "y", "C", "T", "3", "E", "k", "D",
      "j", "H", "S", "S", "T", "R", "a", "S", "K", "1", "d", "x",
      "t", "u", "Q", "g", "b", "j", "b">>

\* Key strings hashed: the one of the tests, one with an empty long token,
\* one with a short long token and one whose long token takes two blocks.
Sha256Inputs ==
    {TestPakString,
     <<"m", "y", "c", "o", "m", "p", "a", "n", "y", "_", "C", "E", "U", "s", "S", "4", "p", "s", "C", "m", "c", "_">>,
     <<"p", "_", "s", "_", "a", "b", "c">>,
     <<"p", "_", "s", "_">> \o
         <<"a", "b", "c", "d", "b", "c", "d", "e", "c", "d", "e", "f",
         "d", "e", "f", "g", "e", "f", "g", "h", "f", "g", "h", "i",
         "g", "h", "i", "j", "h", "i", "j", "k", "i", "j", "k", "l",
         "j", "k", "l", "m", "k", "l", "m", "n", "l", "m", "n", "o",
         "m", "n", "o", "p", "n", "o", "p", "q">>}

InitSha256 ==
    /\ cfg = ControllerNew(<<"p">>, None, 0, 0)
    /\ rng = <<>>
    /\ digest = Sha256New
    /\ pak \in {try_into(s).key : s \in Sha256Inputs}
    /\ stored = NothingStored
    /\ builder = ControllerBuilderNew
    /\ options = GeneratorOptionsDefault
    /\ ret = [op |-> "init"]

\* pak.long_token_hashed(&mut digest) begins: Digest::update absorbs the
\* long token, finalize_reset pads what was absorbed and takes the first block.
Sha256Update ==
    /\ digest.phase = "idle"
    /\ LET absorbed == digest.buffer \o AsBytes(pak.long_token)
           padded == Sha256Pad(absorbed)
       IN  digest' = [digest EXCEPT !.phase = "schedule", !.buffer = absorbed,
                                    !.blocks = padded, !.t = 1,
                                    !.W = Sha256Block(padded, 1)]
    /\ ret' = [op |-> "update", key |-> pak]
    /\ UNCHANGED <<cfg, rng, pak, stored, builder, options>>

\* One more word of the message schedule.
Sha256ScheduleStep ==
    /\ digest.phase = "schedule"
    /\ Len(digest.W) < 64
    /\ digest' = [digest EXCEPT !.W = Append(digest.W, Sha256Schedule(digest.W))]
    /\ UNCHANGED <<cfg, rng, pak, stored, builder, options, ret>>

\* The schedule is complete: the working variables start from the hash value.
Sha256BeginRounds ==
    /\ digest.phase = "schedule"
    /\ Len(digest.W) = 64
    /\ digest' = [digest EXCEPT !.phase = "rounds", !.v = digest.H]
    /\ UNCHANGED <<cfg, rng, pak, stored, builder, options, ret>>

\* One round of the compression function.
Sha256RoundStep ==
    /\ digest.phase = "rounds"
    /\ Len(digest.W) > 0
    /\ LET n == 64 - Len(digest.W) + 1
       IN  digest' = [digest EXCEPT
                         !.v = Sha256Round(digest.v, Sha256K[n], digest.W[1]),
                         !.W = Tail(digest.W)]
    /\ UNCHANGED <<cfg, rng, pak, stored, builder, options, ret>>

\* The block is done: the working variables are added to the hash value and
\* the next block, if there is one, is taken.
Sha256NextBlock ==
    /\ digest.phase = "rounds"
    /\ digest.W = <<>>
    /\ 64 * digest.t < Len(digest.blocks)
    /\ digest' = [digest EXCEPT
                     !.phase = "schedule", !.t = digest.t + 1,
                     !.H = [i \in 1..8 |-> AddWords(<<digest.H[i], digest.v[i]>>)],
                     !.W = Sha256Block(digest.blocks, digest.t + 1)]
    /\ UNCHANGED <<cfg, rng, pak, stored, builder, options, ret>>

\* The last block is done: hex::encode of the output is returned and the
\* digest is as new.
Sha256FinalizeReset ==
    /\ digest.phase = "rounds"
    /\ digest.W = <<>>
    /\ 64 * digest.t = Len(digest.blocks)
    /\ LET H == [i \in 1..8 |-> AddWords(<<digest.H[i], digest.v[i]>>)]
       IN  ret' = [op |-> "long_token_hashed", key |-> pak,
                   absorbed |-> digest.buffer,
                   out |-> Sha256Output(H),
                   hash |-> HexEncode(Sha256Output(H))]
    /\ digest' = Sha256New
    /\ UNCHANGED <<cfg, rng, pak, stored, builder, options>>

NextSha256 ==
    \/ Sha256Update
    \/ Sha256ScheduleStep
    \/ Sha256BeginRounds
    \/ Sha256RoundStep
    \/ Sha256NextBlock
    \/ Sha256FinalizeReset

SpecSha256 == InitSha256 /\ [][NextSha256]_vars

(***************************************************************************)
(* What the claims are stated with: segments, hashes and decodings         *)
(* computed from their definitions rather than by the program's operators. *)
(***************************************************************************)
\* The required fields of a builder in their fixed order, each with the
\* BuilderError and the message that names it.
Required ==
    << [field |-> "prefix", err |-> "MissingPrefix",
        msg |-> "Expected prefix to be set, but wasn't"],
       [field |-> "rng", err |-> "MissingRng",
        msg |-> "Expected rng to be set, but wasn't"],
       [field |-> "digest", err |-> "MissingDigest",
        msg |-> "Expected digest to be set, but wasn't"],
       [field |-> "short_token_length", err |-> "MissingShortTokenLength",
        msg |-> "Expected short_token_length to be set, but wasn't"],
       [field |-> "long_token_length", err |-> "MissingLongTokenLength",
        msg |-> "Expected long_token_length to be set, but wasn't"] >>

\* The positions in Required of the fields a builder has not been given.
Unset(b) == {i \in 1..Len(Required) : ~b[Required[i].field].some}

FirstUnset(b) == CHOOSE i \in Unset(b) : \A j \in Unset(b) : i <= j

Finalizing == ret.op \in {"finalize", "controller_finalize"}

NoUnderscore(s) == \A i \in 1..Len(s) : s[i] # "_"

KeyWithoutUnderscore(key) ==
    NoUnderscore(key.prefix) /\ NoUnderscore(key.short_token) /\ NoUnderscore(key.long_token)

Underscores(s) == {i \in 1..Len(s) : s[i] = "_"}

\* The number of `_`-delimited segments of a string.
SegmentCount(s) == Cardinality(Underscores(s)) + 1

\* The position of the k-th underscore; 0 before the first segment and one
\* past the end after the last.
Separator(s, k) ==
    IF k = 0 THEN 0
    ELSE IF k > Cardinality(Underscores(s)) THEN Len(s) + 1
    ELSE CHOOSE i \in Underscores(s) :
             Cardinality({j \in Underscores(s) : j <= i}) = k

\* The k-th `_`-delimited segment of a string.
Segment(s, k) == SubSeq(s, Separator(s, k - 1) + 1, Separator(s, k) - 1)

Parsing == ret.op \in {"from_string", "try_into"}

Generating == ret.op \in {"generate_key", "generate_key_and_hash"}

\* The fingerprint a newly constructed digest gives for a key's long token.
FreshHash(key) == HexEncode(DigestOutput(AsBytes(key.long_token)))

Base58Index == [c \in Range(Base58Alphabet) |-> IndexOf(Base58Alphabet, c) - 1]

RECURSIVE Base58Value(_)
Base58Value(s) ==
    IF s = <<>> THEN 0
    ELSE 58 * Base58Value(SubSeq(s, 1, Len(s) - 1)) + Base58Index[s[Len(s)]]

RECURSIVE LeadingOnes(_)
LeadingOnes(s) ==
    IF s # <<>> /\ s[1] = "1" THEN 1 + LeadingOnes(SubSeq(s, 2, Len(s))) ELSE 0

RECURSIVE BytesOfNumber(_)
BytesOfNumber(v) ==
    IF v = 0 THEN <<>> ELSE BytesOfNumber(v \div 256) \o <<v % 256>>

\* Base58 decoding: a zero byte per leading "1", then the bytes of the number.
Base58Decode(s) ==
    [i \in 1..LeadingOnes(s) |-> 0] \o BytesOfNumber(Base58Value(s))

\* The debug text with the mask in the long token's place.
MaskedDebug(key) ==
    <<"PrefixedApiKey { prefix: ", "\"">> \o key.prefix
        \o <<"\"", ", short_token: ", "\"">> \o key.short_token
        \o <<"\"", ", long_token: ", "\"", "*", "*", "*", "\"", " }">>

\* What the debug operation named by `op` prints for a key.
DebugOf(op, key) == IF op = "debug" THEN DebugFmt(key) ELSE LibDebugFmt(key)

(***************************************************************************)
(* The claims.                                                             *)
(***************************************************************************)

\* C1: parsing the string to_string returned for a key whose three fields
\* hold no `_` succeeds and gives back that key, field for field.
C1_RoundTrip ==
    (ret.op = "from_string" /\ ret.serialized /\ KeyWithoutUnderscore(ret.of))
        => /\ ret.res.ok
           /\ ret.res.key.prefix = ret.of.prefix
           /\ ret.res.key.short_token = ret.of.short_token
           /\ ret.res.key.long_token = ret.of.long_token
           /\ pak = ret.of

C1_Witness ==
    /\ ret.op = "from_string"
    /\ ret.serialized
    /\ ret.of = PrefixedApiKeyNew(<<"a">>, <<>>, <<"a">>)
    /\ ret.res.ok

\* C2: a string whose number n of `_`-delimited segments is not 3 fails to
\* parse, through from_string and through try_into, with
\* WrongNumberOfParts(n), and no key comes out of it.
C2_ParseArity ==
    (Parsing /\ SegmentCount(ret.str) # 3)
        => /\ ~ret.res.ok
           /\ ret.res.n = SegmentCount(ret.str)
           /\ ret.res.key = NoKey

C2_Witness ==
    /\ ret.op = "try_into"
    /\ ret.str = <<"a", "_", "_", "_">>
    /\ ~ret.res.ok
    /\ ret.res.n = 4

\* C3: a string with exactly 3 `_`-delimited segments parses, and its
\* segments become prefix, short token and long token in that order.
C3_ParsePositional ==
    (Parsing /\ SegmentCount(ret.str) = 3)
        => /\ ret.res.ok
           /\ ret.res.key.prefix = Segment(ret.str, 1)
           /\ ret.res.key.short_token = Segment(ret.str, 2)
           /\ ret.res.key.long_token = Segment(ret.str, 3)

C3_Witness ==
    /\ ret.op = "from_string"
    /\ ret.str = <<"a", "_", "_", "a">>
    /\ ret.res.ok
    /\ ret.res.key = PrefixedApiKeyNew(<<"a">>, <<>>, <<"a">>)

C6_VerificationNegative ==
    (ret.op = "check_hash" /\ ret.cand # FreshHash(ret.key)) => ~ret.res

C6_Witness ==
    /\ ret.op = "check_hash"
    /\ ret.cand = UpperHex(FreshHash(ret.key))
    /\ ret.cand # FreshHash(ret.key)
    /\ ~ret.res

\* C7: every debug representation of a key shows *** in place of the long
\* token and is the same for keys that differ in the long token only.
C7_SecretMasking ==
    ret.op \in {"debug", "lib_debug"}
        => /\ ret.str = MaskedDebug(ret.key)
           /\ \A l \in Fields :
                  DebugOf(ret.op, [ret.key EXCEPT !.long_token = l]) = ret.str

\* C8: the short token of a generated key has exactly short_token_length
\* characters, with and without a short-token prefix.
C8_ShortTokenLength ==
    Generating => Len(ret.key.short_token) = cfg.short_token_length

\* C9: the long token of a generated key is the base58 text of the
\* long_token_length bytes of the second draw: decoding it gives those bytes.
C9_LongTokenLength ==
    Generating
        => /\ Len(ret.drawn[2]) = cfg.long_token_length
           /\ rng[Len(rng)] = cfg.long_token_length
           /\ Base58Decode(ret.key.long_token) = ret.drawn[2]
           /\ Len(Base58Decode(ret.key.long_token)) = cfg.long_token_length

C9_Witness ==
    /\ ret.op = "generate_key"
    /\ cfg.long_token_length = MaxTokenLen
    /\ ret.drawn[2][1] = 0
    /\ ret.drawn[2][MaxTokenLen] = 58
    /\ Len(ret.key.long_token) > cfg.long_token_length

\* C10: with a short-token prefix of at least short_token_length
\* characters, the short token of a generated key is the first
\* short_token_length characters of that prefix, whatever was drawn.
C10_PrefixTruncation ==
    (Generating /\ cfg.short_token_prefix.some
        /\ Len(cfg.short_token_prefix.val) >= cfg.short_token_length)
        => ret.key.short_token
               = SubSeq(cfg.short_token_prefix.val, 1, cfg.short_token_length)

C10_Witness ==
    /\ ret.op = "generate_key"
    /\ cfg.short_token_prefix.some
    /\ Len(cfg.short_token_prefix.val) > cfg.short_token_length
    /\ cfg.short_token_length = MaxTokenLen
    /\ ret.drawn[1][1] = 58
    /\ ret.key.short_token = Take(LowerCase, MaxTokenLen)

\* C11: with a short-token prefix P shorter than short_token_length, the
\* short token of a generated key is the first short_token_length characters
\* of P followed by the encoded first draw: it starts with P and has exactly
\* short_token_length characters, P included.
C11_ShortPrefixBudget ==
    (Generating /\ cfg.short_token_prefix.some
        /\ Len(cfg.short_token_prefix.val) < cfg.short_token_length)
        => LET P == cfg.short_token_prefix.val
               n == cfg.short_token_length
               short == ret.key.short_token
           IN  /\ Len(short) = n
               /\ SubSeq(short, 1, Len(P)) = P
               /\ SubSeq(short, Len(P) + 1, n)
                      = SubSeq(Base58Encode(ret.drawn[1]), 1, n - Len(P))
               /\ Len(ret.drawn[1]) = n

C11_Witness ==
    /\ ret.op = "generate_key"
    /\ cfg.short_token_prefix = Some(Take(LowerCase, 1))
    /\ cfg.short_token_length = MaxTokenLen
    /\ Len(Base58Encode(ret.drawn[1])) > MaxTokenLen
    /\ Len(ret.key.short_token) = MaxTokenLen
    /\ ret.key.short_token[1] = "a"
    /\ ret.key.short_token[2] # "a"

C13_BuilderErrorOrder ==
    (Finalizing /\ Unset(ret.before) # {})
        => /\ ~ret.res.ok
           /\ ret.res.err
                  = IF ret.op = "finalize"
                    THEN Required[FirstUnset(ret.before)].err
                    ELSE Required[FirstUnset(ret.before)].msg
           /\ ret.before = ControllerBuilderNew
                  => ret.res.err \in {Required[1].err, Required[1].msg}

C13_Witness ==
    /\ ret.op = "finalize"
    /\ Unset(ret.before) = {2, 4, 5}
    /\ ret.res = BuilderErr("MissingRng")

\* C14: finalize returns a controller exactly when prefix, randomness
\* source, digest, short-token length and long-token length have all been
\* set, whatever the short-token prefix is, and the controller holds the
\* values the builder was given.
C14_BuilderCompleteness ==
    Finalizing
        => LET b == ret.before
           IN  /\ ret.res.ok <=> (/\ b.prefix.some /\ b.rng.some /\ b.digest.some
                                  /\ b.short_token_length.some
                                  /\ b.long_token_length.some)
               /\ ret.res.ok
                      => /\ ret.res.controller.prefix = b.prefix.val
                         /\ ret.res.controller.short_token_prefix = b.short_token_prefix
                         /\ ret.res.controller.short_token_length = b.short_token_length.val
                         /\ ret.res.controller.long_token_length = b.long_token_length.val
                         /\ ret.res.rng = b.rng.val
                         /\ ret.res.digest = b.digest.val

C14_Witness ==
    /\ ret.op = "finalize"
    /\ ret.res.ok
    /\ ret.before.short_token_prefix = None
    /\ ret.res.controller.short_token_prefix = None
    /\ ret.res.controller.prefix = <<"p">>
    /\ ret.res.controller.short_token_length = 1
    /\ ret.res.controller.long_token_length = MaxTokenLen
    /\ ret.res.rng = "ThreadRng"

\* C15: each long-token-length setter, of the builder and of the
\* GeneratorOptions, sets the long-token length to its argument and leaves
\* the short-token length as it was.
C15_SetterIndependence ==
    /\ ret.op = "long_token_length"
           => /\ ret.after.long_token_length = Some(ret.value)
              /\ ret.after.short_token_length = ret.before.short_token_length
    /\ ret.op = "options_long_token_length"
           => /\ ret.after.long_token_length = ret.value
              /\ ret.after.short_token_length = ret.before.short_token_length

\* C16: default_lengths sets the short-token length to 8 and the long-token
\* length to 24 and no other field of the builder, GeneratorOptions::default
\* has the lengths 8 and 24 and no short-token prefix, and a builder with
\* prefix, randomness source, digest and these default lengths finalizes to
\* a controller.
C16_DefaultLengths ==
    /\ ret.op = "default_lengths"
           => /\ ret.after.short_token_length = Some(8)
              /\ ret.after.long_token_length = Some(24)
              /\ \A f \in {"prefix", "rng", "digest", "short_token_prefix"} :
                     ret.after[f] = ret.before[f]
    /\ ret.op = "options_default"
           => ret.after = [short_token_prefix |-> None, short_token_length |-> 8,
                           long_token_length |-> 24]
    /\ (Finalizing /\ ret.before.prefix.some /\ ret.before.rng.some
            /\ ret.before.digest.some
            /\ ret.before.short_token_length = Some(8)
            /\ ret.before.long_token_length = Some(24))
           => /\ ret.res.ok
              /\ ret.res.controller.short_token_length = 8
              /\ ret.res.controller.long_token_length = 24

C16_Witness ==
    /\ ret.op = "finalize"
    /\ ret.res.ok
    /\ ret.before.short_token_length = Some(8)
    /\ ret.before.long_token_length = Some(24)
    /\ ret.before.short_token_prefix = Some(Take(LowerCase, 1))

\* The controller's prefix and short-token prefix hold no separator.
ConfigWithoutUnderscore ==
    /\ NoUnderscore(cfg.prefix)
    /\ cfg.short_token_prefix.some => NoUnderscore(cfg.short_token_prefix.val)

\* The string form of a generated key has two separators and three segments,
\* from_string accepts it, and the parsed key serializes to the same string.
WireFormat ==
    /\ (ret.op = "to_string" /\ ret.gen)
           => /\ Cardinality(Underscores(ret.str)) = 2
              /\ SegmentCount(ret.str) = 3
    /\ (ret.op = "from_string" /\ ret.serialized /\ ret.gen) => ret.res.ok
    /\ (ret.op = "to_string" /\ ret.source_gen) => ret.str = ret.source

\* C17 as amended: for every controller whose prefix and short-token prefix
\* hold no `_`, whatever the lengths, the string form of a generated key has
\* exactly two separators and three segments, from_string accepts it, and
\* the parsed key serializes to the identical string.
C17_WireFormat ==
    ConfigWithoutUnderscore => WireFormat

C17_Witness ==
    /\ ConfigWithoutUnderscore
    /\ cfg.short_token_prefix = Some(Take(LowerCase, 1))
    /\ cfg.short_token_length = MaxTokenLen
    /\ cfg.long_token_length = 0
    /\ ret.op = "to_string"
    /\ ret.source_gen
    /\ ret.str = ret.source
    /\ SegmentCount(ret.str) = 3
    /\ ret.key.long_token = <<>>

\* C17 as stated: the same for every configuration the constructor accepts,
\* any prefix and any short-token prefix.
C17_WireFormatAnyConfig ==
    cfg \in Configs => WireFormat

\* The two separators between the three fields, nothing added or changed.
Joined(key) ==
    [i \in 1..(Len(key.prefix) + Len(key.short_token) + Len(key.long_token) + 2) |->
        IF i <= Len(key.prefix) THEN key.prefix[i]
        ELSE IF i = Len(key.prefix) + 1 THEN "_"
        ELSE IF i <= Len(key.prefix) + 1 + Len(key.short_token)
        THEN key.short_token[i - Len(key.prefix) - 1]
        ELSE IF i = Len(key.prefix) + Len(key.short_token) + 2 THEN "_"
        ELSE key.long_token[i - Len(key.prefix) - Len(key.short_token) - 2]]

\* C18: to_string, and as_string of the older variant, return the prefix,
\* `_`, the short token, `_` and the long token, for every key, fields
\* holding a `_` included.
C18_StringForm ==
    ret.op \in {"to_string", "as_string"} => ret.str = Joined(ret.key)

C18_Witness ==
    /\ ret.op = "to_string"
    /\ ret.key = PrefixedApiKeyNew(<<"a">>, <<"_">>, <<>>)
    /\ ret.str = <<"a", "_", "_", "_">>

\* C19: when from_string or try_into has accepted a string, the string form
\* of the key it returned is that string.
C19_ParseThenSerialize ==
    (ret.op = "to_string" /\ ret.parsed) => ret.str = ret.source

C19_Witness ==
    /\ ret.op = "to_string"
    /\ ret.parsed
    /\ ret.source = <<"a", "_", "_", "a">>
    /\ ret.str = ret.source
    /\ ret.key.short_token = <<>>

\* The full string with *** in the long token's place.
SafeString(key) == Joined([key EXCEPT !.long_token = <<"*", "*", "*">>])

\* C20 as amended: the Display of the older variant prints exactly
\* <prefix>_<short_token>_***; the Debug of the current variant prints the
\* struct form with *** as the long token, which is not that string.
C20_SafeFormat ==
    /\ ret.op = "lib_display" => ret.str = SafeString(ret.key)
    /\ ret.op = "debug"
           => /\ ret.str = MaskedDebug(ret.key)
              /\ ret.str # SafeString(ret.key)

C20_Witness ==
    /\ ret.op = "lib_display"
    /\ ret.key = PrefixedApiKeyNew(<<"a">>, <<"a">>, <<"_">>)
    /\ ret.str = <<"a", "_", "a", "_", "*", "*", "*">>

\* C20 as stated: every safe representation of a key, the Display of the
\* older variant and the Debug of the current one, is exactly
\* <prefix>_<short_token>_***.
C20_SafeFormatEveryRepresentation ==
    ret.op \in {"lib_display", "debug"} => ret.str = SafeString(ret.key)

\* C21: when the randomness source fails in a draw of generate_key, the call
\* ends in a panic and returns no key: a returned key never comes from a call
\* in which a draw failed, the caller's key is the one it had before, and the
\* source was called once for the failed draw and not again.
C21_RandomnessFailure ==
    /\ Generating => ret.failed = 0
    /\ ret.op = "panic"
           => /\ pak = ret.pak
              /\ Len(rng) = Len(ret.rng) + ret.failed
              /\ rng[Len(rng)] = IF ret.failed = 1 THEN cfg.short_token_length
                                 ELSE cfg.long_token_length
              /\ ret.failed = 2 => rng[Len(rng) - 1] = cfg.short_token_length

C21_Witness ==
    /\ ret.op = "panic"
    /\ ret.failed = 2
    /\ rng = <<MaxTokenLen, 1>>
    /\ pak = NoKey

\* The long token of the tests and the hash they expect for it.
TestLongToken ==
    <<"B", "d", "d", "p", "c", "w", "W", "y", "C", "T", "3", "E",
    "k", "D", "j", "H", "S", "S", "T", "R", "a", "S", "K", "1",
    "d", "x", "t", "u", "Q", "g", "b", "j", "b">>

TestHash ==
    <<"0", "f", "0", "1", "a", "b", "6", "e", "0", "8", "3", "3",
    "f", "2", "8", "0", "b", "7", "3", "b", "2", "b", "6", "1",
    "8", "c", "1", "6", "1", "0", "2", "d", "9", "1", "c", "0",
    "b", "7", "c", "5", "8", "5", "d", "4", "2", "a", "0", "8",
    "0", "d", "6", "e", "6", "6", "0", "3", "2", "3", "9", "a",
    "8", "b", "e", "e">>

\* The SHA-256 of the empty message, of "abc" and of the 56-byte message of
\* FIPS 180-4, in hexadecimal.
Sha256KnownAnswers ==
    {<<0, <<"e", "3", "b", "0", "c", "4", "4", "2", "9", "8", "f", "c",
         "1", "c", "1", "4", "9", "a", "f", "b", "f", "4", "c", "8",
         "9", "9", "6", "f", "b", "9", "2", "4", "2", "7", "a", "e",
         "4", "1", "e", "4", "6", "4", "9", "b", "9", "3", "4", "c",
         "a", "4", "9", "5", "9", "9", "1", "b", "7", "8", "5", "2",
         "b", "8", "5", "5">>>>,
     <<3, <<"b", "a", "7", "8", "1", "6", "b", "f", "8", "f", "0", "1",
         "c", "f", "e", "a", "4", "1", "4", "1", "4", "0", "d", "e",
         "5", "d", "a", "e", "2", "2", "2", "3", "b", "0", "0", "3",
         "6", "1", "a", "3", "9", "6", "1", "7", "7", "a", "9", "c",
         "b", "4", "1", "0", "f", "f", "6", "1", "f", "2", "0", "0",
         "1", "5", "a", "d">>>>,
     <<56, <<"2", "4", "8", "d", "6", "a", "6", "1", "d", "2", "0", "6",
          "3", "8", "b", "8", "e", "5", "c", "0", "2", "6", "9", "3",
          "0", "c", "3", "e", "6", "0", "3", "9", "a", "3", "3", "c",
          "e", "4", "5", "9", "6", "4", "f", "f", "2", "1", "6", "7",
          "f", "6", "e", "c", "e", "d", "d", "4", "1", "9", "d", "b",
          "0", "6", "c", "1">>>>,
     <<Len(TestLongToken), TestHash>>}

\* The value of a lowercase hexadecimal digit.
HexValue(c) == IndexOf(HexAlphabet, c) - 1

\* C22: long_token_hashed returns the lowercase hexadecimal text, two
\* characters per byte, of the digest's output over exactly the bytes of the
\* key's long token; with SHA-256 and the long token
\* BddpcwWyCT3EkDjHSSTRaSK1dxtuQgbjb that text is 0f01ab6e...9a8bee.
C22_HashOutputFormat ==
    ret.op = "long_token_hashed"
        => /\ ret.absorbed = [i \in 1..Len(ret.key.long_token) |->
                                 AsciiCode(ret.key.long_token[i])]
           /\ Len(ret.out) = 32
           /\ Len(ret.hash) = 2 * Len(ret.out)
           /\ \A i \in 1..Len(ret.out) :
                  /\ InSeq(HexAlphabet, ret.hash[2 * i - 1])
                  /\ InSeq(HexAlphabet, ret.hash[2 * i])
                  /\ 16 * HexValue(ret.hash[2 * i - 1]) + HexValue(ret.hash[2 * i])
                         = ret.out[i]
           /\ <<Len(ret.key.long_token), ret.hash>> \in Sha256KnownAnswers
           /\ ret.key.long_token = TestLongToken => ret.hash = TestHash

C22_Witness ==
    /\ ret.op = "long_token_hashed"
    /\ ret.key.prefix = <<"m", "y", "c", "o", "m", "p", "a", "n", "y">>
    /\ ret.key.long_token = TestLongToken
    /\ ret.hash = TestHash
    /\ digest = Sha256New

\* The position of the first character in which two texts of the same
\* length differ, one past the end when they are equal.
FirstDifference(a, b) ==
    IF a = b THEN Len(a) + 1
    ELSE CHOOSE i \in 1..Len(a) : a[i] # b[i] /\ \A j \in 1..(i - 1) : a[j] = b[j]

\* C23: for a candidate as long as the hash, check_hash compares every byte
\* pair, wherever the first differing byte is: the number of byte
\* comparisons is the length of the hash.
C23_ConstantTime ==
    (ret.op = "check_hash" /\ Len(ret.cand) = Len(FreshHash(ret.key)))
        => ret.work = Len(FreshHash(ret.key))

C23_Witness ==
    /\ ret.op = "check_hash"
    /\ Len(ret.cand) = Len(FreshHash(ret.key))
    /\ FirstDifference(ret.cand, FreshHash(ret.key)) = 1
    /\ ret.work = Len(ret.cand)
    /\ ret.work > 1
    /\ ~ret.res

\* C24: every generate_key makes exactly two draws, the first of
\* short_token_length bytes and the second of long_token_length bytes, so the
\* draws made on the source come in such pairs; the first draw is made also
\* when the short-token prefix alone fills the short token.
C24_DrawOrder ==
    Generating
        => /\ Len(rng) >= 2
           /\ Len(rng) % 2 = 0
           /\ \A i \in 1..Len(rng) :
                  rng[i] = IF i % 2 = 1 THEN cfg.short_token_length
                           ELSE cfg.long_token_length
           /\ Len(ret.drawn) = 2
           /\ Len(ret.drawn[1]) = cfg.short_token_length
           /\ Len(ret.drawn[2]) = cfg.long_token_length

C24_Witness ==
    /\ ret.op = "generate_key"
    /\ cfg.short_token_prefix = Some(Take(LowerCase, MaxTokenLen + 1))
    /\ cfg.short_token_length = MaxTokenLen
    /\ cfg.long_token_length = 1
    /\ ret.key.short_token = Take(LowerCase, MaxTokenLen)
    /\ rng = <<MaxTokenLen, 1>>
    /\ ret.drawn[1][1] = 58

\* C25 as amended: the lengths of a controller are natural numbers, 0
\* included: the controller at hand was constructed with the lengths 0 and 0,
\* and finalize on a builder with all required fields set returns a
\* controller with the lengths the builder was given, also when they are 0.
C25_NonNegativeLengths ==
    /\ cfg.short_token_length \in Nat
    /\ cfg.long_token_length \in Nat
    /\ (Finalizing /\ Unset(ret.before) = {})
           => /\ ret.res.ok
              /\ ret.res.controller.short_token_length \in Nat
              /\ ret.res.controller.long_token_length \in Nat
              /\ ret.res.controller.short_token_length = ret.before.short_token_length.val
              /\ ret.res.controller.long_token_length = ret.before.long_token_length.val

C25_Witness ==
    /\ cfg.short_token_length = 0
    /\ cfg.long_token_length = 0
    /\ ret.op = "finalize"
    /\ ret.res.ok
    /\ ret.res.controller.short_token_length = 0
    /\ ret.res.controller.long_token_length = 0

\* C25 as stated: every controller that can be constructed, by
\* PrefixedApiKeyController::new or by finalize, has a short-token length
\* and a long-token length of at least 1.
C25_PositiveLengths ==
    /\ cfg.short_token_length >= 1
    /\ cfg.long_token_length >= 1
    /\ (Finalizing /\ ret.res.ok)
           => /\ ret.res.controller.short_token_length >= 1
              /\ ret.res.controller.long_token_length >= 1

\* The setter calls a caller can make on a builder, as <<name, argument>>.
SetterCalls ==
    ({"prefix"} \X Prefixes) \cup ({"rng"} \X Rngs) \cup ({"digest"} \X Digests)
        \cup ({"short_token_prefix"} \X BuilderShortTokenPrefixes)
        \cup ({"short_token_length", "long_token_length"} \X Lengths)
        \cup {<<"default_lengths", <<>>>>}

\* The builder a setter call returns.
Call(b, op, value) ==
    CASE op = "prefix" -> builder_prefix(b, value)
      [] op = "rng" -> builder_rng(b, value)
      [] op = "digest" -> builder_digest(b, value)
      [] op = "short_token_prefix" -> builder_short_token_prefix(b, value)
      [] op = "short_token_length" -> builder_short_token_length(b, value)
      [] op = "long_token_length" -> builder_long_token_length(b, value)
      [] op = "default_lengths" -> default_lengths(b)

\* The fields a setter is meant to write.
Writes(op) ==
    IF op = "default_lengths" THEN {"short_token_length", "long_token_length"}
    ELSE {op}

SetterOps == {c[1] : c \in SetterCalls}

\* C26: what finalize returns depends only on the last value written to each
\* field: a setter call and a call on other fields give the same builder, and
\* so the same finalize result, in either order; a second call of a setter
\* replaces the value of the first; default_lengths after a length setter
\* gives 8 and 24, and a length setter after default_lengths keeps its value.
C26_OrderIndependence ==
    ret.op \in SetterOps
        => LET b == ret.before
               a == ret.after
           IN  /\ \A c \in SetterCalls :
                      /\ Writes(c[1]) \cap Writes(ret.op) = {}
                             => /\ Call(a, c[1], c[2])
                                       = Call(Call(b, c[1], c[2]), ret.op, ret.value)
                                /\ finalize(Call(a, c[1], c[2]))
                                       = finalize(Call(Call(b, c[1], c[2]), ret.op, ret.value))
                      /\ c[1] = ret.op
                             => /\ Call(a, c[1], c[2]) = Call(b, c[1], c[2])
                                /\ Call(Call(b, c[1], c[2]), ret.op, ret.value) = a
               /\ ret.op \in {"short_token_length", "long_token_length"}
                      => /\ default_lengths(a).short_token_length = Some(8)
                         /\ default_lengths(a).long_token_length = Some(24)
                         /\ a[ret.op] = Some(ret.value)
               /\ ret.op = "default_lengths"
                      => \A x \in Lengths :
                             /\ builder_short_token_length(a, x).short_token_length = Some(x)
                             /\ builder_short_token_length(a, x).long_token_length = Some(24)
                             /\ builder_long_token_length(a, x).long_token_length = Some(x)
                             /\ builder_long_token_length(a, x).short_token_length = Some(8)

C26_Witness ==
    /\ ret.op = "default_lengths"
    /\ ret.before.short_token_length = Some(1)
    /\ ret.before.long_token_length = Some(MaxTokenLen)
    /\ ~ret.before.prefix.some
    /\ ret.after.short_token_length = Some(8)
    /\ ret.after.long_token_length = Some(24)
    /\ finalize(builder_prefix(ret.after, <<"p">>))
           = finalize(default_lengths(builder_prefix(ret.before, <<"p">>)))

\* The fingerprint of a long token: the hexadecimal text of the digest's
\* output over its bytes.
Fingerprint(long_token) ==
    LET bytes == [i \in 1..Len(long_token) |-> AsciiCode(long_token[i])]
        sum == Checksum(bytes)
    IN  <<HexAlphabet[(sum \div 4096) + 1], HexAlphabet[((sum \div 256) % 16) + 1],
          HexAlphabet[((sum \div 16) % 16) + 1], HexAlphabet[(sum % 16) + 1]>>

\* C27: the hash long_token_hashed returns and the verdict of check_hash are
\* determined by the key's long token and the candidate alone: they are the
\* same for every prefix and short token the key may have and for every
\* controller configuration, the one with an empty prefix and lengths 0
\* included.
C27_HashOfLongTokenOnly ==
    /\ ret.op = "long_token_hashed"
           => /\ ret.hash = Fingerprint(ret.key.long_token)
              /\ \A p \in Fields, s \in Fields :
                     PakLongTokenHashed(PrefixedApiKeyNew(p, s, ret.key.long_token),
                                        digest).hash = ret.hash
    /\ ret.op = "check_hash"
           => /\ ret.res = (ret.cand = Fingerprint(ret.key.long_token))
              /\ \A p \in Fields, s \in Fields :
                     check_hash(PrefixedApiKeyNew(p, s, ret.key.long_token),
                                ret.cand, digest).res = ret.res

C27_Witness ==
    /\ cfg = ControllerNew(<<>>, None, 0, 0)
    /\ ret.op = "check_hash"
    /\ ret.key = PrefixedApiKeyNew(<<"_">>, <<"a">>, <<"a">>)
    /\ ret.cand = Fingerprint(<<"a">>)
    /\ ret.res

\* C28: long_token_hashed of a key does not clear the digest it is given: with
\* a handle that has absorbed bytes B it returns the fingerprint of B followed
\* by the long token's bytes, which is not the fingerprint of the long token
\* alone, and the handle is as new afterwards.
C28_NoResetOnEntry ==
    /\ ret.op \in {"pak_long_token_hashed", "lib_long_token_hashed"}
           => /\ ret.hash = HexEncode(DigestOutput(ret.absorbed \o AsBytes(ret.key.long_token)))
              /\ ret.absorbed # <<>> => ret.hash # Fingerprint(ret.key.long_token)
    /\ ret.op = "pak_long_token_hashed" => digest = DigestNew

C28_Witness ==
    /\ ret.op = "pak_long_token_hashed"
    /\ Len(ret.absorbed) = MaxAbsorbed
    /\ ret.key.long_token # <<>>
    /\ ret.hash # Fingerprint(ret.key.long_token)
    /\ digest = DigestNew

\* The fields of the controller that its constructor sets from its arguments.
Configuration(c) ==
    <<c.prefix, c.short_token_prefix, c.short_token_length, c.long_token_length>>

\* C29: in every step the controller's prefix, short-token prefix and two
\* lengths stay as they are; a generate_key, returning or panicking, leaves the
\* digest as it is; a long_token_hashed or a check_hash leaves the randomness
\* source as it is, and the key it was given has the fields it had.
C29_Frame ==
    [][ /\ Configuration(cfg') = Configuration(cfg)
        /\ ret'.op \in {"generate_key", "panic"} => digest' = digest
        /\ ret'.op \in {"long_token_hashed", "check_hash"}
               => /\ rng' = rng
                  /\ pak' = pak
                  /\ stored'.key \in {stored.key, pak}
                  /\ ret'.key \in {pak, stored.key}
        /\ ret'.op \in {"generate_key", "generate_key_and_hash"}
               => /\ ret'.key = pak'
                  /\ stored'.key \in {stored.key, pak'} ]_vars

C29_Witness ==
    /\ ret.op = "check_hash"
    /\ Len(rng) = MaxDraws
    /\ stored.by = "generate_key_and_hash"
    /\ ret.key = stored.key
    /\ pak # stored.key
    /\ digest = DigestNew

\* The number of `_` characters of a string.
UnderscoreCount(s) == Cardinality(Underscores(s))

\* C30: from_string and try_into succeed exactly on the strings with two `_`
\* characters, empty segments being segments: "__" gives the key of three
\* empty fields, and a parsed key's fields are separator-free and spell the
\* input when joined by `_`.  Otherwise the error carries the number of `_`
\* plus one: 1 for the empty string, 2 for a string with one `_`.
C30_SegmentCounting ==
    Parsing =>
        /\ ret.res.ok = (UnderscoreCount(ret.str) = 2)
        /\ ~ret.res.ok => ret.res = WrongNumberOfParts(UnderscoreCount(ret.str) + 1)
        /\ ret.str = <<>> => ret.res = WrongNumberOfParts(1)
        /\ UnderscoreCount(ret.str) = 1 => ret.res = WrongNumberOfParts(2)
        /\ ret.str = <<"_", "_">> => ret.res = Ok(PrefixedApiKeyNew(<<>>, <<>>, <<>>))
        /\ ret.res.ok
               => /\ ret.res.key.prefix \o <<"_">> \o ret.res.key.short_token
                        \o <<"_">> \o ret.res.key.long_token = ret.str
                  /\ NoUnderscore(ret.res.key.prefix)
                  /\ NoUnderscore(ret.res.key.short_token)
                  /\ NoUnderscore(ret.res.key.long_token)

C30_Witness ==
    /\ ret.op = "from_string"
    /\ ret.str = <<"_", "a", "_">>
    /\ ret.res = Ok(PrefixedApiKeyNew(<<>>, <<"a">>, <<>>))

====
